---- MODULE Spec2Model ----
(***************************************************************************)
(* Model of the 50@50 dashboard (arahalkar/sva-stitha-health-app).         *)
(*                                                                         *)
(* The repository holds two versions of the App component.  Both own one   *)
(* goal list seeded from INITIAL_DATA; the first has the text update       *)
(* (handleUpdate), the second the sheet sync (fetchFromGoogleSheets).      *)
(* The variable app says which component is mounted; it never changes.     *)
(*                                                                         *)
(* Strings are sequences of chunks: a chunk is one character ("3", "/",    *)
(* ",", " ") or a word without whitespace that the code only ever treats   *)
(* as a unit ("Running", "Mile").  The two Devanagari literals of the      *)
(* number patterns are written "minite" and "purna".                       *)
(*                                                                         *)
(* Goal objects live in heap; goals and INITIAL_DATA are arrays of         *)
(* references, as in JavaScript.                                           *)
(***************************************************************************)
EXTENDS Integers, Sequences, FiniteSets, TLC

VARIABLES
  now,                \* new Date().getTime() when the component was mounted
  app,                \* which App component is mounted
  env,                \* process.env: sheetId, apiKey
  goals,              \* the goals state: an array of references
  heap,               \* the goal objects
  nextRef,            \* the next unused reference
  isSyncing, isUpdateModalOpen, rawText,
  alert,              \* the alert() of the latest step
  syncs,              \* the suspended calls of fetchFromGoogleSheets
  fetchCount,         \* requests issued
  started,            \* calls that reached the fetch
  updates,            \* calls of handleUpdate
  response,           \* the body the latest sync read (NoBody until it has)
  processed           \* the text the latest handleUpdate read

vars == <<now, app, env, goals, heap, nextRef, isSyncing, isUpdateModalOpen,
          rawText, alert, syncs, fetchCount, started, updates, response,
          processed>>

(***************************************************************************)
(* Bounds of the model.                                                    *)
(***************************************************************************)
MaxLines == 1
MaxRows == 2
MaxSyncs == 2
MaxUpdates == 1
MaxLateTicks == 1
MaxAdvance == 2
TimeMargin == 30

(***************************************************************************)
(* Time, in hours from the start date.  START_DATE and TARGET_DATE are     *)
(* 122 days apart when both are read in one time zone; a day is            *)
(* 1000 * 60 * 60 * 24 ms, 24 hours.                                       *)
(***************************************************************************)
StartTime == 0

EndTime == 2928

DayLength == 24

(***************************************************************************)
(* Numbers: a decimal m / 10^e with the least e, or NaN.                   *)
(***************************************************************************)
NaN == [nan |-> TRUE, m |-> 0, e |-> 0]

RECURSIVE Norm(_, _)
Norm(m, e) ==
  IF e > 0 /\ m % 10 = 0 THEN Norm(m \div 10, e - 1)
  ELSE [nan |-> FALSE, m |-> m, e |-> e]

Num(n) == [nan |-> FALSE, m |-> n, e |-> 0]

IsZero(x) == ~x.nan /\ x.m = 0

(***************************************************************************)
(* Characters.                                                             *)
(***************************************************************************)
Digit == {"0", "1", "2", "3", "4", "5", "6", "7", "8", "9"}

WhiteSpace == {" "}

DigitVal(c) ==
  CASE c = "0" -> 0 [] c = "1" -> 1 [] c = "2" -> 2 [] c = "3" -> 3
    [] c = "4" -> 4 [] c = "5" -> 5 [] c = "6" -> 6 [] c = "7" -> 7
    [] c = "8" -> 8 [] c = "9" -> 9

\* index after the longest run of characters of class S that starts at i
RECURSIVE RunEnd(_, _, _)
RunEnd(s, i, S) ==
  IF i <= Len(s) /\ s[i] \in S THEN RunEnd(s, i + 1, S) ELSE i

\* value of the digits s[i..j-1], on top of acc
RECURSIVE DigitsVal(_, _, _, _)
DigitsVal(s, i, j, acc) ==
  IF i >= j THEN acc ELSE DigitsVal(s, i + 1, j, acc * 10 + DigitVal(s[i]))

\* String.prototype.replace(/,/g, '')
RemoveCommas(s) == SelectSeq(s, LAMBDA c : c # ",")

\* String.prototype.trim
RECURSIVE TrimEnd(_)
TrimEnd(s) ==
  IF Len(s) > 0 /\ s[Len(s)] \in WhiteSpace
  THEN TrimEnd(SubSeq(s, 1, Len(s) - 1)) ELSE s

Trim(s) ==
  LET i == RunEnd(s, 1, WhiteSpace)
  IN  TrimEnd(SubSeq(s, i, Len(s)))

\* parseInt(s), radix 10: leading white space, a sign, then the digit prefix
ParseInt(s) ==
  LET i == RunEnd(s, 1, WhiteSpace)
      neg == i <= Len(s) /\ s[i] = "-"
      k == IF i <= Len(s) /\ s[i] \in {"-", "+"} THEN i + 1 ELSE i
      j == RunEnd(s, k, Digit)
      v == DigitsVal(s, k, j, 0)
  IN  IF j = k THEN NaN ELSE Num(IF neg THEN 0 - v ELSE v)

\* parseFloat(s): leading white space, a sign, digits, an optional fraction;
\* the longest prefix that is a decimal literal.  (No chunk spells an
\* exponent or "Infinity".)
ParseFloat(s) ==
  LET i == RunEnd(s, 1, WhiteSpace)
      neg == i <= Len(s) /\ s[i] = "-"
      k == IF i <= Len(s) /\ s[i] \in {"-", "+"} THEN i + 1 ELSE i
      j == RunEnd(s, k, Digit)
      dot == j <= Len(s) /\ s[j] = "."
      f == IF dot THEN RunEnd(s, j + 1, Digit) ELSE j
      nfrac == IF dot THEN f - (j + 1) ELSE 0
      whole == DigitsVal(s, k, j, 0)
      v == IF nfrac > 0 THEN DigitsVal(s, j + 1, f, whole) ELSE whole
  IN  IF j = k /\ nfrac = 0 THEN NaN
      ELSE Norm(IF neg THEN 0 - v ELSE v, nfrac)

(***************************************************************************)
(* The seed list.                                                          *)
(***************************************************************************)
Goal(id, name, current, target, unit, category) ==
  [id |-> id, name |-> name, current |-> current, target |-> target,
   unit |-> unit, category |-> category]

SeedGoals ==
  << Goal(<<"running">>, <<"Running", " ", "(", "1", " ", "Mile", ")">>,
          Num(3), Num(51), <<"Miles">>, <<"physical">>),
     Goal(<<"gym">>, <<"Gym", " ", "Sessions">>,
          Num(2), Num(51), <<"Sessions">>, <<"physical">>),
     Goal(<<"jump-ropes">>, <<"Jump Ropes">>,
          Num(2028), Num(51000), <<"Ropes">>, <<"physical">>),
     Goal(<<"sit-ups">>, <<"Sit-ups">>,
          Num(65), Num(5000), <<"Reps">>, <<"physical">>),
     Goal(<<"manache-shlok">>, <<"Manache Shlok">>,
          Num(22), Num(51), <<"Shloks">>, <<"mental">>),
     Goal(<<"shir-sasan">>, <<"Shir-sasan">>,
          Norm(15, 1), Num(100), <<"Minutes">>, <<"physical">>),
     Goal(<<"surya-namaskar">>, <<"Surya Namaskar">>,
          Num(12), Num(500), <<"Reps">>, <<"physical">>),
     Goal(<<"push-ups">>, <<"Push-ups">>,
          Num(11), Num(500), <<"Reps">>, <<"physical">>) >>

\* the array INITIAL_DATA: references to the eight seed objects
INITIAL_DATA == [i \in 1..Len(SeedGoals) |-> i]

(***************************************************************************)
(* Text update (first App component).                                      *)
(***************************************************************************)
NoMatch == [ok |-> FALSE, g1 |-> <<>>]

\* the five number patterns of handleUpdate: group 1 is a run of class g1,
\* ws says whether \s* surrounds the separator, g2 is the class of group 2
\* ({} when the pattern ends at the separator)
ReSlash == [g1 |-> Digit, ws |-> FALSE, sep |-> "/", g2 |-> Digit]

ReJumpRopes ==
  [g1 |-> Digit \cup {","}, ws |-> TRUE, sep |-> "/", g2 |-> Digit \cup {","}]

ReSitUps == [g1 |-> Digit, ws |-> TRUE, sep |-> "/", g2 |-> Digit \cup {","}]

ReMinite == [g1 |-> Digit \cup {"."}, ws |-> TRUE, sep |-> "minite", g2 |-> {}]

RePurna == [g1 |-> Digit, ws |-> TRUE, sep |-> "purna", g2 |-> {}]

\* does the pattern match with group 1 starting at i
MatchAt(line, i, re) ==
  LET j == RunEnd(line, i, re.g1)
      k == IF re.ws THEN RunEnd(line, j, WhiteSpace) ELSE j
      l == IF re.ws /\ re.g2 # {} THEN RunEnd(line, k + 1, WhiteSpace)
           ELSE k + 1
  IN  /\ j > i
      /\ k <= Len(line)
      /\ line[k] = re.sep
      /\ re.g2 # {} => (l <= Len(line) /\ line[l] \in re.g2)

\* line.match(re): the leftmost match, of which the code reads group 1 only
Match(line, re) ==
  LET S == {i \in 1..Len(line) : MatchAt(line, i, re)}
  IN  IF S = {} THEN NoMatch
      ELSE LET i == CHOOSE x \in S : \A y \in S : x <= y
           IN  [ok |-> TRUE, g1 |-> SubSeq(line, i, RunEnd(line, i, re.g1) - 1)]

\* line.includes(anchor)
Includes(line, anchor) == \E i \in 1..Len(line) : line[i] = anchor

\* the if / else-if chain of handleUpdate, in its order
AnchorTable ==
  << [anchor |-> "Running", id |-> <<"running">>, re |-> ReSlash, conv |-> "int"],
     [anchor |-> "Jump Ropes", id |-> <<"jump-ropes">>, re |-> ReJumpRopes,
      conv |-> "intNoCommas"],
     [anchor |-> "Sit-ups", id |-> <<"sit-ups">>, re |-> ReSitUps, conv |-> "int"],
     [anchor |-> "Manache Shlok", id |-> <<"manache-shlok">>, re |-> ReSlash,
      conv |-> "int"],
     [anchor |-> "Shir-sasan", id |-> <<"shir-sasan">>, re |-> ReMinite,
      conv |-> "float"],
     [anchor |-> "Mom's Progress", id |-> <<"moms-progress">>, re |-> ReSlash,
      conv |-> "int"],
     [anchor |-> "Surya Namaskar", id |-> <<"surya-namaskar">>, re |-> RePurna,
      conv |-> "int"],
     [anchor |-> "Push-ups", id |-> <<"push-ups">>, re |-> RePurna, conv |-> "int"] >>

BranchMatching(line) ==
  LET S == {t \in 1..Len(AnchorTable) :
              /\ Includes(line, AnchorTable[t].anchor)
              /\ Match(line, AnchorTable[t].re).ok}
  IN  IF S = {} THEN 0 ELSE CHOOSE x \in S : \A y \in S : x <= y

\* the branch of the chain a line takes: the first anchor it includes (0: none)
Branch(line) ==
  LET S == {t \in 1..Len(AnchorTable) : Includes(line, AnchorTable[t].anchor)}
  IN  IF S = {} THEN 0 ELSE CHOOSE x \in S : \A y \in S : x <= y

\* parseInt(match[1]), parseInt(match[1].replace(/,/g, '')), parseFloat(match[1])
Convert(conv, g1) ==
  CASE conv = "int" -> ParseInt(g1)
    [] conv = "intNoCommas" -> ParseInt(RemoveCommas(g1))
    [] conv = "float" -> ParseFloat(g1)

\* newGoals.find(g => g.id === id): index of the first such goal (0: undefined)
Find(h, arr, id) ==
  LET S == {i \in 1..Len(arr) : h[arr[i]].id = id}
  IN  IF S = {} THEN 0 ELSE CHOOSE x \in S : \A y \in S : x <= y

ApplyLineTarget(h, arr, line) ==
  LET t == Branch(line)
  IN  IF t = 0 THEN h
      ELSE LET m == Match(line, AnchorTable[t].re)
               g == Find(h, arr, AnchorTable[t].id)
           IN  IF ~m.ok \/ g = 0 THEN h
               ELSE [h EXCEPT ![arr[g]].target =
                       Convert(AnchorTable[t].conv, m.g1)]

ApplyLineUnchecked(h, arr, line) ==
  LET t == Branch(line)
  IN  IF t = 0 THEN h
      ELSE LET m == Match(line, AnchorTable[t].re)
               g == Find(h, arr, AnchorTable[t].id)
           IN  IF g = 0 THEN h
               ELSE [h EXCEPT ![arr[g]].current =
                       Convert(AnchorTable[t].conv, m.g1)]

\* the body of lines.forEach for one line: the heap after it
ApplyLine(h, arr, line) ==
  LET t == Branch(line)
  IN  IF t = 0 THEN h
      ELSE LET m == Match(line, AnchorTable[t].re)
               g == Find(h, arr, AnchorTable[t].id)
           IN  IF ~m.ok \/ g = 0 THEN h
               ELSE [h EXCEPT ![arr[g]].current =
                       Convert(AnchorTable[t].conv, m.g1)]

RECURSIVE ApplyLines(_, _, _, _)
ApplyLines(h, arr, lines, i) ==
  IF i > Len(lines) THEN h
  ELSE ApplyLines(ApplyLine(h, arr, lines[i]), arr, lines, i + 1)

\* rawText.split('\n')
RECURSIVE Split(_)
Split(s) ==
  LET S == {i \in 1..Len(s) : s[i] = "\n"}
  IN  IF S = {} THEN <<s>>
      ELSE LET i == CHOOSE x \in S : \A y \in S : x <= y
           IN  <<SubSeq(s, 1, i - 1)>> \o Split(SubSeq(s, i + 1, Len(s)))

\* lines a user pastes
Lines ==
  { <<"Running", " ", "(", "1", " ", "Mile", ")", ":", " ", "7", "/", "5", "1">>,
    <<"Jump Ropes", ":", " ", "2", ",", "5", "0", "0", " ", "/", " ",
      "5", "1", ",", "0", "0", "0">>,
    <<"Sit-ups", ":", " ", "1", ",", "0", "6", "5", "/", "5", ",", "0", "0", "0">>,
    <<"Shir-sasan", ":", " ", "2", ".", "5", " ", "minite">>,
    <<"Mom's Progress", ":", " ", "4", "/", "1", "0">>,
    <<"Surya Namaskar", ":", " ", "2", "4", " ", "purna">>,
    <<"Push-ups", " ", "Running", " ", "9", "/", "9">>,
    <<"Running", ":", " ", "soon">>,
    <<"Running", " ", "Push-ups", ":", " ", "1", "5", " ", "purna">>,
    <<"Gym", " ", "Sessions", ":", " ", "5", "/", "5", "1">> }

RECURSIVE TextsOf(_)
TextsOf(n) ==
  IF n = 0 THEN {<<>>}
  ELSE LET T == TextsOf(n - 1)
       IN  T \cup Lines \cup {t \o <<"\n">> \o l : t \in T \ {<<>>}, l \in Lines}

Texts == TextsOf(MaxLines)

Alert(msg, count, detail) == [msg |-> msg, count |-> count, detail |-> detail]

NoAlert == Alert("none", 0, "")

(***************************************************************************)
(* Sheet sync (second App component).                                      *)
(***************************************************************************)
\* delay of the abort timer; the model's clock advances by as much
TimeoutMs == 15000

TickMs == TimeoutMs

SheetUrlPrefix == "docs.google.com/spreadsheets/d/"

\* values of VITE_GOOGLE_SHEET_ID and VITE_GOOGLE_API_KEY (unset: empty)
SheetIds == {<<>>, <<"ID">>, <<SheetUrlPrefix, "ID">>}

ApiKeys == {<<>>, <<"KEY">>}

\* the sheet id the request uses: the id of a pasted URL, else the value as is
ExtractSheetId(sheetId) ==
  IF Includes(sheetId, SheetUrlPrefix)
  THEN LET S == {i \in 1..Len(sheetId) - 1 :
                   sheetId[i] = SheetUrlPrefix /\ sheetId[i + 1] = "ID"}
       IN  IF S = {} THEN sheetId
           ELSE <<sheetId[(CHOOSE x \in S : \A y \in S : x <= y) + 1]>>
  ELSE sheetId

ConfigMissingIdOnly(e) == ExtractSheetId(e.sheetId) = <<>>

\* !sheetId || !apiKey
ConfigMissing(e) == ExtractSheetId(e.sheetId) = <<>> \/ e.apiKey = <<>>

\* String.prototype.toLowerCase, chunk by chunk
LowerChunk(c) ==
  CASE c = "Meditation" -> "meditation"
    [] c = "Deep" -> "deep"
    [] c = "Work" -> "work"
    [] c = "X" -> "x"
    [] c = "Mental" -> "mental"
    [] c = "Other" -> "other"
    [] c = "Sleep" -> "sleep"
    [] OTHER -> c

ToLowerCase(s) == [i \in 1..Len(s) |-> LowerChunk(s[i])]

\* String.prototype.replace(/\s+/g, '-')
RECURSIVE ReplaceSpaces(_)
ReplaceSpaces(s) ==
  IF s = <<>> THEN <<>>
  ELSE IF s[1] \in WhiteSpace
       THEN <<"-">> \o ReplaceSpaces(SubSeq(s, RunEnd(s, 1, WhiteSpace), Len(s)))
       ELSE <<s[1]>> \o ReplaceSpaces(SubSeq(s, 2, Len(s)))

\* decimal digits of a row index
RECURSIVE IndexString(_)
IndexString(n) ==
  LET d == <<"0", "1", "2", "3", "4", "5", "6", "7", "8", "9">>[(n % 10) + 1]
  IN  IF n < 10 THEN <<d>> ELSE IndexString(n \div 10) \o <<d>>

\* row[k] is truthy: the cell is there and is not the empty string
\* (k counts from 1 here, the code's row[k - 1])
Truthy(row, k) == k <= Len(row) /\ row[k] # <<>>

\* !row[0] || row[0].toString().trim() === ''
SkipRow(row) == ~Truthy(row, 1) \/ Trim(row[1]) = <<>>

Categories == {<<"physical">>, <<"mental">>, <<"other">>}

RowGoalKeepSeparators(row, index) ==
  LET nameFromSheet == Trim(row[1])
      currentVal == IF Truthy(row, 2) THEN ParseFloat(row[2]) ELSE Num(0)
      targetVal == IF Truthy(row, 3) THEN ParseFloat(row[3]) ELSE Num(100)
      unitVal == IF Truthy(row, 4) THEN Trim(row[4]) ELSE <<"Units">>
      rawCategory == IF Truthy(row, 5) THEN ToLowerCase(Trim(row[5]))
                     ELSE <<"physical">>
      categoryVal == IF rawCategory \in Categories THEN rawCategory
                     ELSE <<"physical">>
  IN  Goal(<<"sheet-">> \o IndexString(index) \o <<"-">>
             \o ToLowerCase(ReplaceSpaces(nameFromSheet)),
           nameFromSheet,
           IF currentVal.nan THEN Num(0) ELSE currentVal,
           IF targetVal.nan THEN Num(100) ELSE targetVal,
           unitVal, categoryVal)

RowGoalIdFromName(row, index) ==
  LET nameFromSheet == Trim(row[1])
      currentVal == IF Truthy(row, 2) THEN ParseFloat(RemoveCommas(row[2]))
                    ELSE Num(0)
      targetVal == IF Truthy(row, 3) THEN ParseFloat(RemoveCommas(row[3]))
                   ELSE Num(100)
      unitVal == IF Truthy(row, 4) THEN Trim(row[4]) ELSE <<"Units">>
      rawCategory == IF Truthy(row, 5) THEN ToLowerCase(Trim(row[5]))
                     ELSE <<"physical">>
      categoryVal == IF rawCategory \in Categories THEN rawCategory
                     ELSE <<"physical">>
  IN  Goal(<<"sheet-">> \o ToLowerCase(ReplaceSpaces(nameFromSheet)),
           nameFromSheet,
           IF currentVal.nan THEN Num(0) ELSE currentVal,
           IF targetVal.nan THEN Num(100) ELSE targetVal,
           unitVal, categoryVal)

\* the goal pushed for the row at index (from 0) of the response
RowGoal(row, index) ==
  LET nameFromSheet == Trim(row[1])
      currentVal == IF Truthy(row, 2) THEN ParseFloat(RemoveCommas(row[2]))
                    ELSE Num(0)
      targetVal == IF Truthy(row, 3) THEN ParseFloat(RemoveCommas(row[3]))
                   ELSE Num(100)
      unitVal == IF Truthy(row, 4) THEN Trim(row[4]) ELSE <<"Units">>
      rawCategory == IF Truthy(row, 5) THEN ToLowerCase(Trim(row[5]))
                     ELSE <<"physical">>
      categoryVal == IF rawCategory \in Categories THEN rawCategory
                     ELSE <<"physical">>
  IN  Goal(<<"sheet-">> \o IndexString(index) \o <<"-">>
             \o ToLowerCase(ReplaceSpaces(nameFromSheet)),
           nameFromSheet,
           IF currentVal.nan THEN Num(0) ELSE currentVal,
           IF targetVal.nan THEN Num(100) ELSE targetVal,
           unitVal, categoryVal)

\* rows.forEach: syncedGoals after the rows from position i on
RECURSIVE SyncedGoals(_, _)
SyncedGoals(rows, i) ==
  IF i > Len(rows) THEN <<>>
  ELSE IF SkipRow(rows[i]) THEN SyncedGoals(rows, i + 1)
       ELSE <<RowGoal(rows[i], i - 1)>> \o SyncedGoals(rows, i + 1)

\* rows a sheet holds
Rows ==
  { << <<"Meditation">>, <<"1", "0">>, <<"3", "0">>, <<"Minutes">>, <<"mental">> >>,
    << <<>>, <<"5">>, <<"1", "0">> >>,
    << <<"X">>, <<"5">>, <<"0">> >>,
    << <<"Deep", " ", "Work">>, <<"1", ",", "0", "0", "0">>,
       <<"2", ",", "5", "0", "0", ".", "5">>, <<" ", "Hours", " ">>,
       <<" ", "Other">> >>,
    << <<"X">>, <<"-", "5">>, <<"a", "b", "c">>, <<>>, <<"Sleep">> >> }

RECURSIVE ResponsesOf(_)
ResponsesOf(n) ==
  IF n = 0 THEN {<<>>}
  ELSE LET R == ResponsesOf(n - 1)
       IN  R \cup {r \o <<row>> : r \in R, row \in Rows}

\* what response.json() gives for a 2xx response: a rejection (the body is
\* not JSON), an object without values, or an object with rows
NoBody == [json |-> FALSE, hasValues |-> FALSE, values |-> <<>>]

Bodies ==
  {NoBody, [json |-> TRUE, hasValues |-> FALSE, values |-> <<>>]}
  \cup {[json |-> TRUE, hasValues |-> TRUE, values |-> r] :
          r \in ResponsesOf(MaxRows)}

\* the result of the loop for every response, computed once
SyncedGoalsOf == [r \in ResponsesOf(MaxRows) |-> SyncedGoals(r, 1)]

InFlight == DOMAIN syncs

\* the finally block, and the end of the async function
EndSync(s) ==
  /\ isSyncing' = FALSE
  /\ syncs' = [x \in InFlight \ {s} |-> syncs[x]]

SeedRefs == 1..Len(SeedGoals)

Init ==
  /\ \/ app = "update" /\ env = [sheetId |-> <<>>, apiKey |-> <<>>]
     \/ app = "sync" /\ env \in [sheetId : SheetIds, apiKey : ApiKeys]
  /\ goals = INITIAL_DATA
  /\ heap = [r \in SeedRefs |-> SeedGoals[r]]
  /\ nextRef = Len(SeedGoals) + 1
  /\ isSyncing = FALSE
  /\ isUpdateModalOpen = FALSE
  /\ rawText = <<>>
  /\ alert = NoAlert
  /\ syncs = <<>>
  /\ fetchCount = 0
  /\ started = 0
  /\ updates = 0
  /\ response = NoBody
  /\ processed = <<>>
  /\ now = StartTime

\* onClick of "Update Stats"
OpenUpdateModal ==
  /\ app = "update"
  /\ ~isUpdateModalOpen
  /\ isUpdateModalOpen' = TRUE
  /\ alert' = NoAlert
  /\ UNCHANGED <<now, app, env, goals, heap, nextRef, isSyncing, rawText, syncs,
                 fetchCount, started, updates, response, processed>>

\* onClick of the backdrop and of "Cancel"
CloseUpdateModal ==
  /\ app = "update"
  /\ isUpdateModalOpen
  /\ isUpdateModalOpen' = FALSE
  /\ alert' = NoAlert
  /\ UNCHANGED <<now, app, env, goals, heap, nextRef, isSyncing, rawText, syncs,
                 fetchCount, started, updates, response, processed>>

\* onChange of the textarea
SetRawText ==
  /\ app = "update"
  /\ isUpdateModalOpen
  /\ updates < MaxUpdates
  /\ \E t \in Texts : t # rawText /\ rawText' = t
  /\ alert' = NoAlert
  /\ UNCHANGED <<now, app, env, goals, heap, nextRef, isSyncing, isUpdateModalOpen,
                 syncs, fetchCount, started, updates, response, processed>>

\* onClick of "Process Update".  newGoals is a new array of the same object
\* references; the loop assigns to the objects themselves.
handleUpdate ==
  /\ app = "update"
  /\ isUpdateModalOpen
  /\ updates < MaxUpdates
  /\ LET newGoals == goals
     IN  /\ heap' = ApplyLines(heap, newGoals, Split(rawText), 1)
         /\ goals' = newGoals
  /\ isUpdateModalOpen' = FALSE
  /\ rawText' = <<>>
  /\ alert' = NoAlert
  /\ updates' = updates + 1
  /\ processed' = rawText
  /\ UNCHANGED <<now, app, env, nextRef, isSyncing, syncs, fetchCount, started,
                 response>>

TriggerAlways == TRUE

\* the button "Update dashboard": disabled={isSyncing}
TriggerEnabled == ~isSyncing

\* onClick of "Update dashboard": the function up to its first await
fetchFromGoogleSheets ==
  /\ app = "sync"
  /\ TriggerEnabled
  /\ IF ConfigMissing(env)
     THEN /\ alert' = Alert("ConfigMissing", 0, "")
          /\ UNCHANGED <<isSyncing, syncs, fetchCount, started, response>>
     ELSE /\ started < MaxSyncs
          /\ isSyncing' = TRUE
          /\ syncs' = [x \in InFlight \cup {started + 1} |->
                         IF x = started + 1
                         THEN [pc |-> "fetch", timer |-> "armed", elapsed |-> 0]
                         ELSE syncs[x]]
          /\ fetchCount' = fetchCount + 1
          /\ started' = started + 1
          /\ alert' = NoAlert
          /\ response' = NoBody
  /\ UNCHANGED <<now, app, env, goals, heap, nextRef, isUpdateModalOpen, rawText,
                 updates, processed>>

\* time passes for a suspended sync; an armed timer fires on time
Tick(s) ==
  /\ s \in InFlight
  /\ syncs[s].elapsed + TickMs <= TimeoutMs + MaxLateTicks * TickMs
  /\ syncs[s].timer = "armed" => syncs[s].elapsed + TickMs <= TimeoutMs
  /\ syncs' = [syncs EXCEPT ![s].elapsed = @ + TickMs]
  /\ alert' = NoAlert
  /\ UNCHANGED <<now, app, env, goals, heap, nextRef, isSyncing, isUpdateModalOpen,
                 rawText, fetchCount, started, updates, response, processed>>

\* fetch resolves with a response: clearTimeout, then the body is awaited
FetchResolve(s, ok) ==
  /\ s \in InFlight
  /\ syncs[s].pc = "fetch"
  /\ syncs' = [syncs EXCEPT ![s].pc = IF ok THEN "json" ELSE "errorJson",
                            ![s].timer = "cleared"]
  /\ alert' = NoAlert
  /\ UNCHANGED <<now, app, env, goals, heap, nextRef, isSyncing, isUpdateModalOpen,
                 rawText, fetchCount, started, updates, response, processed>>

\* error.message of the error a failed fetch rejects with: the browser's text
NetworkMessages == {"Failed to fetch"}

\* errorData.error.message of a non-2xx response: the server's text
ServerMessages == {"API key not valid", "Failed to fetch"}

\* `HTTP error! status: ${response.status}`
HttpStatusMessage == "HTTP error! status"

\* error.message of the error response.json() rejects with
JsonMessage == "Unexpected token"

\* fetch rejects (network): catch, finally
FetchReject(s) ==
  /\ s \in InFlight
  /\ syncs[s].pc = "fetch"
  /\ \E m \in NetworkMessages : alert' = Alert("SyncFailed", 0, m)
  /\ EndSync(s)
  /\ UNCHANGED <<now, app, env, goals, heap, nextRef, isUpdateModalOpen, rawText,
                 fetchCount, started, updates, response, processed>>

TimerFireGeneric(s) ==
  /\ s \in InFlight
  /\ syncs[s].timer = "armed"
  /\ syncs[s].elapsed >= TimeoutMs
  /\ syncs[s].pc = "fetch"
  /\ alert' = Alert("SyncFailed", 0, "The user aborted a request")
  /\ EndSync(s)
  /\ UNCHANGED <<now, app, env, goals, heap, nextRef, isUpdateModalOpen, rawText,
                 fetchCount, started, updates, response, processed>>

\* the timer fires: controller.abort() rejects the fetch with an AbortError
TimerFire(s) ==
  /\ s \in InFlight
  /\ syncs[s].timer = "armed"
  /\ syncs[s].elapsed >= TimeoutMs
  /\ syncs[s].pc = "fetch"
  /\ alert' = Alert("Timeout", 0, "")
  /\ EndSync(s)
  /\ UNCHANGED <<now, app, env, goals, heap, nextRef, isUpdateModalOpen, rawText,
                 fetchCount, started, updates, response, processed>>

\* !response.ok: the error body is read and the error thrown
ErrorJsonRead(s) ==
  /\ s \in InFlight
  /\ syncs[s].pc = "errorJson"
  /\ \E m \in ServerMessages \cup {""} :
       alert' = Alert("SyncFailed", 0, IF m = "" THEN HttpStatusMessage ELSE m)
  /\ EndSync(s)
  /\ UNCHANGED <<now, app, env, goals, heap, nextRef, isUpdateModalOpen, rawText,
                 fetchCount, started, updates, response, processed>>

SetSyncedGoalsAppend(synced) ==
  LET n == Len(synced)
      new == [i \in 1..n |-> nextRef + i - 1]
  IN  /\ goals' = goals \o new
      /\ heap' = [r \in DOMAIN heap \cup (nextRef..(nextRef + n - 1)) |->
                    IF r \in DOMAIN heap THEN heap[r] ELSE synced[r - nextRef + 1]]
      /\ nextRef' = nextRef + n

HasGoalsAlways(syncedGoals) == TRUE

\* syncedGoals.length > 0
HasGoals(syncedGoals) == Len(syncedGoals) > 0

\* setGoals(syncedGoals): new objects at references from nextRef on; the seed
\* objects stay, the objects of the replaced list are dropped
SetSyncedGoals(synced) ==
  LET n == Len(synced)
      new == [i \in 1..n |-> nextRef + i - 1]
  IN  /\ goals' = new
      /\ heap' = [r \in SeedRefs \cup (nextRef..(nextRef + n - 1)) |->
                    IF r \in SeedRefs THEN heap[r] ELSE synced[r - nextRef + 1]]
      /\ nextRef' = nextRef + n

\* response.json() settles for an ok response: the rest of the try block
JsonRead(s, body) ==
  /\ s \in InFlight
  /\ syncs[s].pc = "json"
  /\ IF ~body.json
     THEN /\ alert' = Alert("SyncFailed", 0, JsonMessage)
          /\ UNCHANGED <<goals, heap, nextRef>>
     ELSE IF ~body.hasValues \/ Len(body.values) = 0
     THEN /\ alert' = Alert("NoData", 0, "")
          /\ UNCHANGED <<goals, heap, nextRef>>
     ELSE LET syncedGoals == SyncedGoalsOf[body.values]
          IN  IF HasGoals(syncedGoals)
              THEN /\ SetSyncedGoals(syncedGoals)
                   /\ alert' = Alert("Success", Len(syncedGoals), "")
              ELSE /\ alert' = Alert("NoValid", 0, "")
                   /\ UNCHANGED <<goals, heap, nextRef>>
  /\ response' = body
  /\ EndSync(s)
  /\ UNCHANGED <<now, app, env, isUpdateModalOpen, rawText, fetchCount, started,
                 updates, processed>>

SyncIds == 1..MaxSyncs

Next ==
  \/ OpenUpdateModal
  \/ CloseUpdateModal
  \/ SetRawText
  \/ handleUpdate
  \/ fetchFromGoogleSheets
  \/ \E s \in SyncIds : Tick(s)
  \/ \E s \in SyncIds, ok \in BOOLEAN : FetchResolve(s, ok)
  \/ \E s \in SyncIds : FetchReject(s)
  \/ \E s \in SyncIds : TimerFire(s)
  \/ \E s \in SyncIds : ErrorJsonRead(s)
  \/ \E s \in SyncIds, body \in Bodies : JsonRead(s, body)

Spec == Init /\ [][Next]_vars

\* What the event loop guarantees: time passes, and a timer that is due and
\* armed fires.  Whether and when the network settles the fetch or the read
\* of the body is not the program's to decide, so no fairness is stated for
\* these steps.
FairSpec ==
  /\ Spec
  /\ WF_vars(\E s \in SyncIds : Tick(s))
  /\ WF_vars(\E s \in SyncIds : TimerFire(s))

\* the same with a network that settles every read of a body it has begun
FairBodySpec ==
  /\ FairSpec
  /\ WF_vars(\E s \in SyncIds : ErrorJsonRead(s))
  /\ WF_vars(\E s \in SyncIds, body \in Bodies : JsonRead(s, body))

(***************************************************************************)
(* Properties.                                                             *)
(***************************************************************************)
NonBlank(cell) == \E i \in 1..Len(cell) : cell[i] \notin WhiteSpace

Named(row) == Len(row) >= 1 /\ NonBlank(row[1])

NamedRows(rows) == SelectSeq(rows, Named)

\* a step in which a suspended sync ends
SyncEndStep == \E s \in InFlight : s \notin DOMAIN syncs'

\* a step in which a sync reads the body of a 2xx response
JsonReadStep == \E s \in InFlight : syncs[s].pc = "json" /\ s \notin DOMAIN syncs'

\* ... and the body has rows of which one at least has a name
SuccessStep ==
  JsonReadStep /\ response'.json /\ NamedRows(response'.values) # <<>>

\* a step of handleUpdate
UpdateStep == updates' = updates + 1

SameValues(a, b) ==
  /\ a.id = b.id
  /\ a.name = b.name
  /\ a.target = b.target
  /\ a.unit = b.unit
  /\ a.category = b.category

\* C1: a sync that reads a 2xx body with a named row replaces the goal list
\* in one step by one new goal per named row, in row order, none of the
\* previous goals among them; and the goal list changes in no other step.
C1_AtomicReplace ==
  [][ /\ SuccessStep =>
           LET named == NamedRows(response'.values)
           IN  /\ Len(goals') = Len(named)
               /\ \A i \in 1..Len(named) :
                    heap'[goals'[i]].name = Trim(named[i][1])
               /\ \A i \in 1..Len(goals') : \A j \in 1..Len(goals) :
                    goals'[i] # goals[j]
               /\ alert'.msg = "Success"
      /\ goals' # goals => SuccessStep ]_vars

C1_Witness ==
  /\ alert.msg = "Success"
  /\ Len(response.values) = 2
  /\ Len(goals) = 1
  /\ started = 2

\* C2: a sync that ends in any way but the successful one, and a trigger
\* with the configuration missing, leave the goal list and its goals as they
\* were, and the trigger enabled.
C2_FailureKeepsGoals ==
  [][ ( \/ SyncEndStep /\ ~SuccessStep
        \/ app = "sync" /\ (env.sheetId = <<>> \/ env.apiKey = <<>>) )
      => /\ goals' = goals
         /\ \A i \in 1..Len(goals) : heap'[goals[i]] = heap[goals[i]]
         /\ ~isSyncing' ]_vars

C2_Witness ==
  /\ alert.msg = "NoValid"
  /\ goals # INITIAL_DATA
  /\ Len(goals) > 0
  /\ ~isSyncing

\* C3: every goal of the goal list has a target other than 0.
C3_TargetNonZero ==
  \A i \in 1..Len(goals) : ~IsZero(heap[goals[i]].target)

\* C4: a text update does not modify the goal objects of the list that was
\* committed before it, nor those of INITIAL_DATA.
C4_CommittedListUntouched ==
  [][ UpdateStep =>
        /\ \A i \in 1..Len(goals) : heap'[goals[i]] = heap[goals[i]]
        /\ \A i \in 1..Len(INITIAL_DATA) :
             heap'[INITIAL_DATA[i]] = SeedGoals[i] ]_vars

\* C5: at most one sync is in flight, and the syncing flag is set while it is.
C5_OneSyncInFlight ==
  /\ Cardinality(InFlight) <= 1
  /\ InFlight # {} => isSyncing

C5_Witness ==
  /\ started = 2
  /\ \E s \in InFlight : syncs[s].pc = "json" /\ syncs[s].elapsed > 0

\* C6: no sync is still suspended (response or body outstanding) when more
\* than the timeout has passed since it started.
C6_NoSyncPastTimeout ==
  \A s \in InFlight : syncs[s].elapsed <= TimeoutMs

\* C7: with the sheet id or the API key absent, the trigger reports the
\* missing configuration, issues no request, leaves the syncing flag unset
\* and starts no timer.
C7_ConfigMissingNoFetch ==
  [][ (app = "sync" /\ (env.sheetId = <<>> \/ env.apiKey = <<>>))
      => /\ alert'.msg = "ConfigMissing"
         /\ fetchCount' = 0
         /\ ~isSyncing'
         /\ DOMAIN syncs' = {} ]_vars

C7_Witness ==
  /\ alert.msg = "ConfigMissing"
  /\ env.sheetId # <<>>
  /\ fetchCount = 0

RECURSIVE RunStart(_, _, _)
RunStart(s, i, S) ==
  IF i >= 1 /\ s[i] \in S THEN RunStart(s, i - 1, S) ELSE i + 1

\* the number written before the separator of the leftmost match: the whole
\* literal of digits, thousands separators and decimal point
WrittenNumber(line, re) ==
  LET S == {i \in 1..Len(line) : MatchAt(line, i, re)}
      i == CHOOSE x \in S : \A y \in S : x <= y
      j == RunEnd(line, i, re.g1)
      a == RunStart(line, j - 1, Digit \cup {",", "."})
  IN  ParseFloat(RemoveCommas(SubSeq(line, a, j - 1)))

\* the lines of a text that take the branch of the goal id and match its pattern
MatchingLines(lines, id) ==
  {n \in 1..Len(lines) :
     /\ Branch(lines[n]) # 0
     /\ AnchorTable[Branch(lines[n])].id = id
     /\ Match(lines[n], AnchorTable[Branch(lines[n])].re).ok}

\* C8: a text update sets the current of every goal that has a matching line
\* to the first number of that line (of the last one, when there are several)
\* and leaves the current of every other goal as it was.
C8_CurrentIsFirstNumber ==
  [][ UpdateStep =>
        \A i \in 1..Len(goals) :
          LET lines == Split(rawText)
              M == MatchingLines(lines, heap[goals[i]].id)
              n == CHOOSE x \in M : \A y \in M : y <= x
          IN  IF M = {}
              THEN heap'[goals[i]].current = heap[goals[i]].current
              ELSE heap'[goals[i]].current =
                     WrittenNumber(lines[n], AnchorTable[Branch(lines[n])].re)
    ]_vars

\* C9: a text update keeps the length and the order of the list, and the id,
\* name, target, unit and category of every goal.
C9_OnlyCurrentChanges ==
  [][ UpdateStep =>
        /\ Len(goals') = Len(goals)
        /\ \A i \in 1..Len(goals) :
             SameValues(heap'[goals'[i]], heap[goals[i]]) ]_vars

C9_Witness ==
  /\ updates >= 1
  /\ \E i \in 1..Len(goals) : heap[goals[i]].current # SeedGoals[i].current

\* no line of the text has an anchor whose pattern matches it
NoEffectiveLine(text) ==
  \A n \in 1..Len(Split(text)) : \A t \in 1..Len(AnchorTable) :
    Includes(Split(text)[n], AnchorTable[t].anchor)
      => ~Match(Split(text)[n], AnchorTable[t].re).ok

\* C10: a text update of a text in which no anchor's pattern matches leaves
\* every goal as it was, reports nothing, closes the dialog and clears the text.
C10_NoMatchIsSuccess ==
  [][ (UpdateStep /\ NoEffectiveLine(rawText)) =>
        /\ goals' = goals
        /\ heap' = heap
        /\ alert'.msg = "none"
        /\ ~isUpdateModalOpen'
        /\ rawText' = <<>> ]_vars

C10_Witness ==
  /\ updates >= 1
  /\ processed # <<>>
  /\ NoEffectiveLine(processed)
  /\ \E t \in 1..Len(AnchorTable) : Includes(processed, AnchorTable[t].anchor)
  /\ ~isUpdateModalOpen
  /\ rawText = <<>>


(***************************************************************************)
(* The row loop on its own: a response of the sheet is drawn at the start  *)
(* and the loop and the commit run on it once.                             *)
(***************************************************************************)
\* rows a sheet holds, the ones of Rows and more
RowsFull ==
  Rows \cup
  { << <<"X">>, <<"a", "b", "c">>, <<"5", "0">> >>,
    << <<" ">>, <<"7">> >>,
    << <<"Meditation">> >>,
    << <<"y">>, <<"1", "5", "0">>, <<"1", "0", "0">>, <<" ">>, <<"Mental">> >>,
    << <<"z">>, <<"5", "0">>, <<"1", "0", "0">> >>,
    << <<"w">>, <<" ", "3", "0">>, <<"3", "0", ".">>, <<"km">>, <<"other">> >>,
    << <<"v">>, <<"1", "2", "k", "m">>, <<"4", ".", "5", ".", "6">> >>,
    << <<"n">>, <<"0">>, <<"0">> >> }

RECURSIVE ResponsesFull(_)
ResponsesFull(n) ==
  IF n = 0 THEN {<<>>}
  ELSE LET R == ResponsesFull(n - 1)
       IN  R \cup {r \o <<row>> : r \in R, row \in RowsFull}

\* the state in which data.values has just been read
InitRows ==
  /\ app = "rows"
  /\ env = [sheetId |-> <<"id">>, apiKey |-> <<"key">>]
  /\ goals = INITIAL_DATA
  /\ heap = [r \in SeedRefs |-> SeedGoals[r]]
  /\ nextRef = Len(SeedGoals) + 1
  /\ isSyncing = TRUE
  /\ isUpdateModalOpen = FALSE
  /\ rawText = <<>>
  /\ alert = NoAlert
  /\ syncs = <<>>
  /\ fetchCount = 1
  /\ started = 1
  /\ updates = 0
  /\ response \in {[json |-> TRUE, hasValues |-> TRUE, values |-> r] :
                     r \in ResponsesFull(MaxRows + 1)}
  /\ processed = <<>>
  /\ now = StartTime

\* the rest of the try block on these rows, then the finally block
ForEachRows ==
  /\ app = "rows"
  /\ isSyncing
  /\ IF Len(response.values) = 0
     THEN /\ alert' = Alert("NoData", 0, "")
          /\ UNCHANGED <<goals, heap, nextRef>>
     ELSE LET syncedGoals == SyncedGoals(response.values, 1)
          IN  IF HasGoals(syncedGoals)
              THEN /\ SetSyncedGoals(syncedGoals)
                   /\ alert' = Alert("Success", Len(syncedGoals), "")
              ELSE /\ alert' = Alert("NoValid", 0, "")
                   /\ UNCHANGED <<goals, heap, nextRef>>
  /\ isSyncing' = FALSE
  /\ UNCHANGED <<now, app, env, isUpdateModalOpen, rawText, syncs, fetchCount,
                 started, updates, response, processed>>

SpecRows == InitRows /\ [][ForEachRows]_vars



(***************************************************************************)
(* Properties of the row loop.                                             *)
(***************************************************************************)
\* the loop has run on the drawn response
RowsDone == app = "rows" /\ alert.msg # "none"

\* cell k of the row is there and holds something
Present(row, k) == k <= Len(row) /\ Len(row[k]) > 0

\* s writes a decimal number: a sign perhaps, digits, at most one point
IsLiteral(s) ==
  LET t == IF Len(s) > 0 /\ s[1] \in {"-", "+"} THEN Tail(s) ELSE s
  IN  /\ \A i \in 1..Len(t) : t[i] \in Digit \cup {"."}
      /\ Cardinality({i \in 1..Len(t) : t[i] = "."}) <= 1
      /\ \E i \in 1..Len(t) : t[i] \in Digit

\* the number a literal writes
LiteralValue(s) ==
  LET digits == SelectSeq(s, LAMBDA c : c \in Digit)
      points == {i \in 1..Len(s) : s[i] = "."}
      nfrac == IF points = {} THEN 0
               ELSE Len(s) - (CHOOSE i \in points : TRUE)
      v == DigitsVal(digits, 1, Len(digits) + 1, 0)
  IN  Norm(IF s[1] = "-" THEN 0 - v ELSE v, nfrac)

\* the cell without thousands separators and outer white space
Cleaned(cell) == Trim(RemoveCommas(cell))

\* the number of a cell that is numeric as a whole, or the default
WholeNumber(row, k, default) ==
  IF Present(row, k) /\ IsLiteral(Cleaned(row[k]))
  THEN LiteralValue(Cleaned(row[k])) ELSE default

\* the number the longest literal at the start of the cell writes, or the
\* default
LeadingNumber(row, k, default) ==
  LET s == IF Present(row, k) THEN Cleaned(row[k]) ELSE <<>>
      lens == {n \in 1..Len(s) : IsLiteral(SubSeq(s, 1, n))}
  IN  IF lens = {} THEN default
      ELSE LiteralValue(SubSeq(s, 1, CHOOSE n \in lens : \A k2 \in lens : k2 <= n))

\* name, unit and category as the row gives them
TextFieldsFromRow(g, row) ==
  /\ g.name = Trim(row[1])
  /\ g.unit = IF Present(row, 4) THEN Trim(row[4]) ELSE <<"Units">>
  /\ g.category = IF Present(row, 5) /\ ToLowerCase(Trim(row[5])) \in Categories
                  THEN ToLowerCase(Trim(row[5])) ELSE <<"physical">>

\* the goals the loop derived: one per named row, in row order, and none
\* when no row has a name
DerivedPerNamedRow(fields(_, _)) ==
  LET named == NamedRows(response.values)
  IN  IF named = <<>> THEN alert.msg # "Success" /\ goals = INITIAL_DATA
      ELSE /\ alert = Alert("Success", Len(named), "")
           /\ Len(goals) = Len(named)
           /\ \A i \in 1..Len(named) : fields(heap[goals[i]], named[i])

Ascending(P) ==
  [k \in 1..Cardinality(P) |->
     CHOOSE p \in P : Cardinality({q \in P : q < p}) = k - 1]

\* positions (from 1) of the rows with a name, in order
NamedPositions(rows) == Ascending({p \in 1..Len(rows) : Named(rows[p])})

\* a name in lower case with every run of white space as one "-"
Slug(name) ==
  LET kept == {i \in 1..Len(name) :
                 name[i] \notin WhiteSpace \/ i = 1 \/ name[i - 1] \notin WhiteSpace}
      nth == Ascending(kept)
  IN  [k \in 1..Len(nth) |->
         IF name[nth[k]] \in WhiteSpace THEN "-" ELSE LowerChunk(name[nth[k]])]

\* C12: the goals of one batch have pairwise distinct ids, rows of the same
\* name and skipped rows between them included, and the id of a goal is
\* "sheet-", the index (from 0) of its row, "-" and the slug of its name:
\* nothing else of the row enters it.
C12_IdsDistinct ==
  (RowsDone /\ alert.msg = "Success") =>
    LET pos == NamedPositions(response.values)
    IN  /\ \A i, j \in 1..Len(goals) :
             i # j => heap[goals[i]].id # heap[goals[j]].id
        /\ \A i \in 1..Len(goals) :
             heap[goals[i]].id =
               <<"sheet-">> \o IndexString(pos[i] - 1) \o <<"-">>
                 \o Slug(heap[goals[i]].name)

\* a batch with two rows of one name and a skipped row between them
C12_Witness ==
  /\ RowsDone
  /\ alert.msg = "Success"
  /\ \E i, j, k \in 1..Len(response.values) :
       /\ i < k /\ k < j
       /\ Named(response.values[i])
       /\ Named(response.values[j])
       /\ ~Named(response.values[k])
       /\ Trim(response.values[i][1]) = Trim(response.values[j][1])
       /\ response.values[i] # response.values[j]



(***************************************************************************)
(* Failure messages.                                                       *)
(***************************************************************************)
\* a step in which the suspended sync s ends
Ends(s) == s \in InFlight /\ s \notin DOMAIN syncs'

\* the alerts a non-2xx response can end in
HttpAlerts ==
  {Alert("SyncFailed", 0, m) : m \in ServerMessages \cup {HttpStatusMessage}}

\* the alerts a rejected fetch can end in
NetworkAlerts == {Alert("SyncFailed", 0, m) : m \in NetworkMessages}

\* the alerts with a text of their own
FixedAlerts ==
  {Alert("Timeout", 0, ""), Alert("ConfigMissing", 0, ""), Alert("NoData", 0, ""),
   Alert("NoValid", 0, "")}

\* C13 as stated: a network failure, a timeout and a non-2xx response each
\* show a message that neither of the other two (nor a missing configuration
\* nor an empty result) shows, and the step that ends a failed sync issues no
\* fetch.
C13_FailuresDistinct ==
  [][ \A s \in SyncIds : Ends(s) =>
        /\ syncs[s].pc = "errorJson" => alert' \notin NetworkAlerts \cup FixedAlerts
        /\ (syncs[s].pc = "fetch" /\ syncs[s].elapsed < TimeoutMs) =>
             alert' \notin HttpAlerts \cup FixedAlerts
        /\ (syncs[s].pc = "fetch" /\ alert'.msg = "Timeout") =>
             alert' \notin HttpAlerts \cup NetworkAlerts
        /\ syncs[s].pc \in {"fetch", "errorJson"} => fetchCount' = fetchCount ]_vars

\* C13 amended: the timeout has a message of its own, shown only when the
\* deadline has passed during the fetch; a network failure and a non-2xx
\* response both show the one generic "Sync failed" message around the text
\* of the error, which is the browser's for the first and the server's (or
\* the status line) for the second, so the two differ only when these texts
\* do; none of them is the missing-configuration or an empty-result message,
\* and the step that ends a failed sync issues no fetch.
C13_TimeoutDistinctGenericShared ==
  [][ \A s \in SyncIds : Ends(s) =>
        /\ syncs[s].pc = "errorJson" =>
             /\ alert'.msg = "SyncFailed"
             /\ alert'.detail \in ServerMessages \cup {HttpStatusMessage}
        /\ syncs[s].pc = "fetch" =>
             \/ /\ alert' = Alert("Timeout", 0, "")
                /\ syncs[s].elapsed >= TimeoutMs
             \/ /\ alert'.msg = "SyncFailed"
                /\ alert'.detail \in NetworkMessages
        /\ syncs[s].pc \in {"fetch", "errorJson"} =>
             /\ fetchCount' = fetchCount
             /\ started' = started
             /\ goals' = goals ]_vars

\* a non-2xx response has ended in the text a network failure shows
C13_Witness ==
  /\ app = "sync"
  /\ ~isSyncing
  /\ started > 0
  /\ alert \in HttpAlerts \cap NetworkAlerts



(***************************************************************************)
(* Derived values (useMemo).  Quotients are exact: a fraction n / d in     *)
(* lowest terms with d > 0, or one of Infinity, -Infinity and NaN, as the  *)
(* division of numbers gives them.  The rounding of doubles is left out.   *)
(***************************************************************************)
RECURSIVE Pow10(_)
Pow10(e) == IF e = 0 THEN 1 ELSE 10 * Pow10(e - 1)

Abs(x) == IF x < 0 THEN 0 - x ELSE x

RECURSIVE GCD(_, _)
GCD(a, b) == IF b = 0 THEN a ELSE GCD(b, a % b)

LCM(a, b) == (a \div GCD(a, b)) * b

Fin(n, d) ==
  LET g == GCD(Abs(n), Abs(d))
      sn == IF d < 0 THEN 0 - n ELSE n
  IN  [k |-> "fin", n |-> IF sn < 0 THEN 0 - (Abs(sn) \div g) ELSE sn \div g,
       d |-> Abs(d) \div g]

Infinity == [k |-> "inf", n |-> 1, d |-> 0]

NegInfinity == [k |-> "ninf", n |-> 0 - 1, d |-> 0]

NaNValue == [k |-> "nan", n |-> 0, d |-> 0]

Whole(i) == Fin(i, 1)

\* x / y for two numbers
Div(x, y) ==
  IF x.nan \/ y.nan THEN NaNValue
  ELSE IF y.m = 0
       THEN IF x.m = 0 THEN NaNValue
            ELSE IF x.m > 0 THEN Infinity ELSE NegInfinity
       ELSE Fin(x.m * Pow10(y.e), y.m * Pow10(x.e))

\* a + b
Plus(a, b) ==
  IF a.k = "nan" \/ b.k = "nan" THEN NaNValue
  ELSE IF a.k = "fin" /\ b.k = "fin"
       THEN LET l == LCM(a.d, b.d)
            IN  Fin(a.n * (l \div a.d) + b.n * (l \div b.d), l)
       ELSE IF a.k = "fin" THEN b
       ELSE IF b.k = "fin" \/ a.k = b.k THEN a
       ELSE NaNValue

\* a * i and a / i for an integer i > 0
Times(a, i) == IF a.k = "fin" THEN Fin(a.n * i, a.d) ELSE a

Over(a, i) == IF a.k = "fin" THEN Fin(a.n, a.d * i) ELSE a

\* a < b; no comparison with NaN holds
Less(a, b) ==
  /\ a.k # "nan" /\ b.k # "nan"
  /\ \/ a.k = "ninf" /\ b.k # "ninf"
     \/ a.k # "inf" /\ b.k = "inf"
     \/ a.k = "fin" /\ b.k = "fin" /\ a.n * b.d < b.n * a.d

\* Math.min(a, b) and Math.max(a, b): NaN when either is
MathMin(a, b) ==
  IF a.k = "nan" \/ b.k = "nan" THEN NaNValue ELSE IF Less(b, a) THEN b ELSE a

MathMax(a, b) ==
  IF a.k = "nan" \/ b.k = "nan" THEN NaNValue ELSE IF Less(a, b) THEN b ELSE a

\* x >= y for two numbers
AtLeast(x, y) ==
  ~x.nan /\ ~y.nan /\ x.m * Pow10(y.e) >= y.m * Pow10(x.e)

\* a - b
Minus(a, b) ==
  Plus(a, IF b.k = "fin" THEN Fin(0 - b.n, b.d)
          ELSE IF b.k = "inf" THEN NegInfinity
          ELSE IF b.k = "ninf" THEN Infinity ELSE NaNValue)

\* the goal objects of a list
Deref(h, arr) == [i \in 1..Len(arr) |-> h[arr[i]]]

\* goals.reduce((acc, goal) => acc + goal.current / goal.target, 0), over the
\* first n goals
RECURSIVE Reduce(_, _)
Reduce(gs, n) ==
  IF n = 0 THEN Whole(0)
  ELSE Plus(Reduce(gs, n - 1), Div(gs[n].current, gs[n].target))

statsNoMean(gs) ==
  LET totalProgress == Reduce(gs, Len(gs))
  IN  [averageProgress |-> Times(totalProgress, 100),
       completedGoals |->
         Len(SelectSeq(gs, LAMBDA g : AtLeast(g.current, g.target))),
       totalGoals |-> Len(gs)]

statsStrict(gs) ==
  LET totalProgress == Over(Reduce(gs, Len(gs)), Len(gs))
  IN  [averageProgress |-> Times(totalProgress, 100),
       completedGoals |->
         Len(SelectSeq(gs, LAMBDA g : AtLeast(g.current, g.target)
                                        /\ g.current # g.target)),
       totalGoals |-> Len(gs)]

\* stats, for a list that is not empty
stats(gs) ==
  LET totalProgress == Over(Reduce(gs, Len(gs)), Len(gs))
  IN  [averageProgress |-> Times(totalProgress, 100),
       completedGoals |->
         Len(SelectSeq(gs, LAMBDA g : AtLeast(g.current, g.target))),
       totalGoals |-> Len(gs)]



\* what selectedCategory can be
Selections == {<<"all">>} \cup Categories

filteredGoalsNoAll(gs, selectedCategory) ==
  SelectSeq(gs, LAMBDA g : g.category = selectedCategory)

\* filteredGoals
filteredGoals(gs, selectedCategory) ==
  IF selectedCategory = <<"all">> THEN gs
  ELSE SelectSeq(gs, LAMBDA g : g.category = selectedCategory)

\* a >= b; no comparison with NaN holds
AtLeastValue(a, b) == a.k # "nan" /\ b.k # "nan" /\ ~Less(a, b)

\* the filter of the milestone of this number, in the order of the card:
\* Completed, Advanced, Steady, Starting, Not Started
InMilestone(b, g) ==
  LET ratio == Div(g.current, g.target)
  IN  CASE b = 1 -> AtLeastValue(ratio, Whole(1))
        [] b = 2 -> AtLeastValue(ratio, Fin(3, 4)) /\ Less(ratio, Whole(1))
        [] b = 3 -> AtLeastValue(ratio, Fin(1, 2)) /\ Less(ratio, Fin(3, 4))
        [] b = 4 -> Less(Whole(0), ratio) /\ Less(ratio, Fin(1, 2))
        [] b = 5 -> IsZero(g.current)

\* the counts of the Milestone Breakdown card
milestoneCounts(gs) ==
  [b \in 1..5 |-> Len(SelectSeq(gs, LAMBDA g : InMilestone(b, g)))]

\* chartData: one entry per goal, in the order of the list
chartData(gs) ==
  [i \in 1..Len(gs) |->
     LET percent == Times(Div(gs[i].current, gs[i].target), 100)
     IN  [name |-> gs[i].name,
          progress |-> MathMin(percent, Whole(100)),
          remaining |-> MathMax(Minus(Whole(100), percent), Whole(0))]]

\* Math.ceil(a / b) and Math.floor(a / b) for integers, b > 0
Ceil(a, b) == 0 - ((0 - a) \div b)

Floor(a, b) == a \div b

timeProgressUnclamped(t) ==
  LET total == EndTime - StartTime
      elapsed == t - StartTime
  IN  [percentage |-> Times(Fin(elapsed, total), 100),
       daysLeft |-> Ceil(EndTime - t, DayLength),
       daysElapsed |-> Floor(t - StartTime, DayLength)]

\* timeProgress, for a component mounted at t
timeProgress(t) ==
  LET total == EndTime - StartTime
      elapsed == t - StartTime
  IN  [percentage |->
         MathMin(MathMax(Times(Fin(elapsed, total), 100), Whole(0)), Whole(100)),
       daysLeft |-> Ceil(EndTime - t, DayLength),
       daysElapsed |-> Floor(t - StartTime, DayLength)]

(***************************************************************************)
(* The time card on its own: the component is mounted again and again, at  *)
(* later and later instants around the challenge window.                   *)
(***************************************************************************)
InitTime ==
  /\ app = "time"
  /\ now = StartTime - TimeMargin
  /\ env = [sheetId |-> <<>>, apiKey |-> <<>>]
  /\ goals = INITIAL_DATA
  /\ heap = [r \in SeedRefs |-> SeedGoals[r]]
  /\ nextRef = Len(SeedGoals) + 1
  /\ isSyncing = FALSE
  /\ isUpdateModalOpen = FALSE
  /\ rawText = <<>>
  /\ alert = NoAlert
  /\ syncs = <<>>
  /\ fetchCount = 0
  /\ started = 0
  /\ updates = 0
  /\ response = NoBody
  /\ processed = <<>>

\* the page is loaded again, some hours later
Remount ==
  /\ app = "time"
  /\ \E d \in 1..MaxAdvance :
       /\ now + d <= EndTime + TimeMargin
       /\ now' = now + d
  /\ UNCHANGED <<app, env, goals, heap, nextRef, isSyncing, isUpdateModalOpen,
                 rawText, alert, syncs, fetchCount, started, updates, response,
                 processed>>

SpecTime == InitTime /\ [][Remount]_vars

(***************************************************************************)
(* Properties of the derived values.                                       *)
(***************************************************************************)
\* the goal objects of the current list
GoalValues == Deref(heap, goals)

\* current / target of a goal as two integers
QuotNum(g) == g.current.m * Pow10(g.target.e)

QuotDen(g) == g.target.m * Pow10(g.current.e)

QuotKind(g) ==
  IF g.current.nan \/ g.target.nan THEN "nan"
  ELSE IF QuotDen(g) # 0 THEN "fin"
  ELSE IF QuotNum(g) = 0 THEN "nan"
  ELSE IF QuotNum(g) > 0 THEN "inf" ELSE "ninf"

\* a common denominator of the first n quotients, all finite
RECURSIVE CommonDen(_, _)
CommonDen(gs, n) ==
  IF n = 0 THEN 1 ELSE LCM(CommonDen(gs, n - 1), Abs(QuotDen(gs[n])))

\* the sum of the first n quotients, all finite, in units of 1 / L
RECURSIVE SumOver(_, _, _)
SumOver(gs, n, L) ==
  IF n = 0 THEN 0
  ELSE SumOver(gs, n - 1, L)
         + (IF QuotDen(gs[n]) < 0 THEN 0 - QuotNum(gs[n]) ELSE QuotNum(gs[n]))
             * (L \div Abs(QuotDen(gs[n])))

\* 100 * (sum of current / target) / n
MeanPercent(gs) ==
  LET kinds == {QuotKind(gs[i]) : i \in 1..Len(gs)}
      L == CommonDen(gs, Len(gs))
  IN  IF "nan" \in kinds \/ {"inf", "ninf"} \subseteq kinds THEN NaNValue
      ELSE IF "inf" \in kinds THEN Infinity
      ELSE IF "ninf" \in kinds THEN NegInfinity
      ELSE Fin(100 * SumOver(gs, Len(gs), L), L * Len(gs))

\* C14: for a goal list that is not empty, averageProgress is 100 times the
\* sum of current / target over the number of goals, completedGoals is the
\* number of goals with current >= target and totalGoals is the length of
\* the list.
C14_StatsAsDefined ==
  (RowsDone /\ Len(goals) > 0) =>
    LET gs == GoalValues
        st == stats(gs)
    IN  /\ st.averageProgress = MeanPercent(gs)
        /\ st.completedGoals =
             Cardinality({i \in 1..Len(gs) :
                            /\ ~gs[i].current.nan /\ ~gs[i].target.nan
                            /\ gs[i].target.m * Pow10(gs[i].current.e)
                                 <= gs[i].current.m * Pow10(gs[i].target.e)})
        /\ st.totalGoals = Len(goals)

\* a synced list with a goal at its target, one below and one above
C14_Witness ==
  /\ RowsDone
  /\ alert.msg = "Success"
  /\ stats(GoalValues).averageProgress.k = "fin"
  /\ \E i, j, k \in 1..Len(goals) :
       /\ heap[goals[i]].current = heap[goals[i]].target
       /\ Less(Div(heap[goals[j]].current, heap[goals[j]].target), Whole(1))
       /\ Less(Whole(1), Div(heap[goals[k]].current, heap[goals[k]].target))



\* every goal of the list is exactly at its target
AllAtTarget(gs) == \A i \in 1..Len(gs) : gs[i].current = gs[i].target

\* no quotient current / target of the list is negative or NaN
NoNegativeQuotient(gs) ==
  \A i \in 1..Len(gs) :
    /\ QuotKind(gs[i]) \in {"fin", "inf"}
    /\ QuotKind(gs[i]) = "fin" => ~Less(Div(gs[i].current, gs[i].target), Whole(0))

C16_ChartInRange ==
  LET gs == GoalValues
      chart == chartData(gs)
  IN  /\ Len(chart) = Len(gs)
      /\ \A i \in 1..Len(gs) :
           /\ chart[i].name = gs[i].name
           /\ chart[i].progress.k = "fin"
           /\ ~Less(chart[i].progress, Whole(0))
           /\ ~Less(Whole(100), chart[i].progress)
           /\ Plus(chart[i].progress, chart[i].remaining) = Whole(100)



\* C17: the time percentage never decreases as the instant of mounting
\* advances, lies between 0 and 100, is 0 up to the start and 100 from the
\* end on, and daysLeft is the least whole number of days that covers the
\* time from now to the end.
C17_TimeProgressMonotone ==
  [][ LET before == timeProgress(now)
          after == timeProgress(now')
      IN  /\ now' > now => ~Less(after.percentage, before.percentage)
          /\ \A t \in {now, now'} :
               LET p == timeProgress(t)
               IN  /\ p.percentage.k = "fin"
                   /\ ~Less(p.percentage, Whole(0))
                   /\ ~Less(Whole(100), p.percentage)
                   /\ t <= StartTime => p.percentage = Whole(0)
                   /\ t >= EndTime => p.percentage = Whole(100)
                   /\ (StartTime < t /\ t < EndTime) =>
                        /\ Less(Whole(0), p.percentage)
                        /\ Less(p.percentage, Whole(100))
                   /\ p.daysLeft * DayLength >= EndTime - t
                   /\ (p.daysLeft - 1) * DayLength < EndTime - t ]_vars

\* mounted inside the window, part of a day before a day boundary
C17_Witness ==
  /\ app = "time"
  /\ StartTime < now /\ now < EndTime
  /\ (EndTime - now) % DayLength # 0
  /\ Less(Whole(0), timeProgress(now).percentage)
  /\ Less(timeProgress(now).percentage, Whole(100))



\* C18: the filter 'all' gives the whole list in its order; any other
\* category gives exactly the goals of that category, in the order they have
\* in the list.
C18_FilterIsSubsequence ==
  RowsDone =>
    LET gs == GoalValues
    IN  \A c \in Selections :
          LET shown == filteredGoals(gs, c)
              at == Ascending({i \in 1..Len(gs) : c = <<"all">> \/ gs[i].category = c})
          IN  /\ Len(shown) = Len(at)
              /\ \A k \in 1..Len(at) : shown[k] = gs[at[k]]

\* a synced list in which the goals of one category are not neighbours
C18_Witness ==
  /\ RowsDone
  /\ alert.msg = "Success"
  /\ \E i, j, k \in 1..Len(goals) :
       /\ i < j /\ j < k
       /\ heap[goals[i]].category = <<"mental">>
       /\ heap[goals[j]].category # <<"mental">>
       /\ heap[goals[k]].category = <<"mental">>
       /\ Len(filteredGoals(GoalValues, <<"mental">>)) = 2



(***************************************************************************)
(* Properties of the line dispatch.                                        *)
(***************************************************************************)
\* the anchors in the order in which a line is tested for them
AnchorOrder ==
  <<"Running", "Jump Ropes", "Sit-ups", "Manache Shlok", "Shir-sasan",
    "Mom's Progress", "Surya Namaskar", "Push-ups">>

\* the anchors a line contains, as positions in AnchorOrder
AnchorsIn(line) ==
  {a \in 1..Len(AnchorOrder) :
     \E i \in 1..Len(line) : line[i] = AnchorOrder[a]}

\* the entry of the table for the first anchor of AnchorOrder that the line
\* contains (the line contains one)
FirstAnchorEntry(line) ==
  LET a == CHOOSE x \in AnchorsIn(line) : \A y \in AnchorsIn(line) : x <= y
  IN  CHOOSE e \in {AnchorTable[t] : t \in 1..Len(AnchorTable)} :
        e.anchor = AnchorOrder[a]

\* line n of the text is applied to the goal of this id: the first anchor it
\* contains is that of the id, and the pattern of that anchor matches it
AppliesTo(line, id) ==
  /\ AnchorsIn(line) # {}
  /\ FirstAnchorEntry(line).id = id
  /\ Match(line, FirstAnchorEntry(line).re).ok

\* C19: in a text update every line changes one goal at most, that of the
\* first anchor, in table order, that the line contains, and only when the
\* pattern of that anchor matches the line; the other anchors of the line
\* are not tried.
C19_FirstAnchorOnly ==
  [][ UpdateStep =>
        LET lines == Split(rawText)
            changed == {i \in 1..Len(goals) : heap'[goals[i]] # heap[goals[i]]}
        IN  /\ Cardinality(changed) <= Len(lines)
            /\ \A i \in changed :
                 \E n \in 1..Len(lines) : AppliesTo(lines[n], heap[goals[i]].id)
            /\ \A i \in 1..Len(goals) :
                 LET A == {n \in 1..Len(lines) : AppliesTo(lines[n], heap[goals[i]].id)}
                     last == CHOOSE n \in A : \A m \in A : m <= n
                 IN  A # {} =>
                       heap'[goals[i]].current =
                         Convert(FirstAnchorEntry(lines[last]).conv,
                                 Match(lines[last], FirstAnchorEntry(lines[last]).re).g1)
      ]_vars

\* an update has read a line with two anchors whose first, in table order,
\* comes second in the line, and has changed the goal of that anchor only
C19_Witness ==
  /\ updates >= 1
  /\ \E n \in 1..Len(Split(processed)) :
       LET line == Split(processed)[n]
       IN  /\ Cardinality(AnchorsIn(line)) > 1
           /\ \E i, j \in 1..Len(line) :
                /\ i < j
                /\ line[j] = FirstAnchorEntry(line).anchor
                /\ line[i] \in {AnchorOrder[a] : a \in AnchorsIn(line)}
           /\ \E g \in 1..Len(goals) :
                /\ heap[goals[g]].id = FirstAnchorEntry(line).id
                /\ heap[goals[g]].current # SeedGoals[g].current
                /\ \A h \in 1..Len(goals) :
                     h # g => heap[goals[h]] = SeedGoals[h]



\* C20: the goal list is never empty, at the start and after any text
\* updates and sheet syncs, so stats never divides by a length of 0.
C20_GoalsNeverEmpty ==
  /\ Len(goals) > 0
  /\ stats(GoalValues).totalGoals > 0

\* a sync has read rows of which none has a name, and the list still has
\* its goals
C20_Witness ==
  /\ app = "sync"
  /\ ~isSyncing
  /\ response.json
  /\ Len(response.values) > 0
  /\ NamedRows(response.values) = <<>>
  /\ Len(goals) = Len(INITIAL_DATA)



(***************************************************************************)
(* The syncing flag.                                                       *)
(***************************************************************************)
\* C21: the syncing flag is set exactly while a sync is in flight, every
\* sync that sets it resets it in the end, whatever its path, and no timer
\* is left armed when no sync is in flight.
C21_FlagEventuallyReset ==
  /\ [](isSyncing <=> InFlight # {})
  /\ [](\A s \in DOMAIN syncs : syncs[s].timer = "armed" => syncs[s].pc = "fetch")
  /\ isSyncing ~> ~isSyncing

\* the part of C21 that holds whatever the network does: a sync whose fetch
\* is outstanding ends
C21_FetchPhaseEnds ==
  (\E s \in InFlight : syncs[s].pc = "fetch")
    ~> (\A s \in InFlight : syncs[s].pc # "fetch")



\* C22: in a text update, every line that contains an anchor and matches the
\* pattern of its first anchor is applied to exactly one goal, a goal of the
\* seed list whose id is the one the anchor stands for.
C22_AnchorsHaveSeedGoals ==
  [][ UpdateStep =>
        \A n \in 1..Len(Split(rawText)) :
          LET line == Split(rawText)[n]
          IN  (AnchorsIn(line) # {} /\ Match(line, FirstAnchorEntry(line).re).ok) =>
                Cardinality({i \in 1..Len(goals) :
                               /\ goals[i] \in SeedRefs
                               /\ heap[goals[i]].id = FirstAnchorEntry(line).id}) = 1
    ]_vars



\* C23: for every goal list the program reaches, each goal is counted in
\* exactly one of the five milestones, and the five counts add up to the
\* number of goals.
C23_MilestonesPartition ==
  LET gs == GoalValues
      counts == milestoneCounts(gs)
  IN  /\ \A i \in 1..Len(gs) :
           Cardinality({b \in 1..5 : InMilestone(b, gs[i])}) = 1
      /\ counts[1] + counts[2] + counts[3] + counts[4] + counts[5] = Len(gs)


====
